---- MODULE Spec2Model ----
(***************************************************************************)
(* fastq-pair: pairing of two FASTQ streams through a chained hash index.  *)
(* The module models pair_files() and hash() of src/fastq_pair.c.          *)
(*                                                                         *)
(* A character is a one-character string, a C string (and a line of a      *)
(* file) is a sequence of characters, a file is a sequence of lines, and a *)
(* file position (ftell/fseek offset) is the number of lines before it.    *)
(***************************************************************************)
EXTENDS Integers, Sequences, FiniteSets, TLC

\* ------------------------------------------------------------------ bounds

\* Largest number of complete records in the left / right input.
MaxLeft == 2
MaxRight == 2
\* Largest opt->tablesize explored (1..MaxTable).
MaxTable == 2
\* Longest header text enumerated for the id normalization alone.
MaxLen == 3

\* ------------------------------------------------------------- characters

NL == "\n"
\* The byte in front of a heap buffer when nothing printable is there.
NUL == "NUL"

\* The ASCII code of a character (hash() adds the char's value).
Code(c) ==
    CASE c = "\t" -> 9   [] c = "\n" -> 10  [] c = " " -> 32  [] c = "+" -> 43
      [] c = "." -> 46   [] c = "/" -> 47   [] c = "0" -> 48  [] c = "1" -> 49
      [] c = "2" -> 50   [] c = "3" -> 51   [] c = "4" -> 52  [] c = "5" -> 53
      [] c = "@" -> 64   [] c = "L" -> 76   [] c = "Q" -> 81  [] c = "R" -> 82
      [] c = "S" -> 83   [] c = "_" -> 95   [] c = "a" -> 97  [] c = "b" -> 98
      [] c = "d" -> 100  [] c = "e" -> 101  [] c = "f" -> 102 [] c = "r" -> 114
      [] c = "x" -> 120  [] OTHER -> 0

\* strcspn(s, reject): the length of the prefix of s free of reject's chars.
Strcspn(s, reject) ==
    IF \E k \in 1..Len(s) : s[k] \in reject
    THEN (CHOOSE k \in 1..Len(s) :
              s[k] \in reject /\ \A j \in 1..(k - 1) : s[j] \notin reject) - 1
    ELSE Len(s)

\* line[strcspn(line, reject)] = '\0': the C string is cut at that place.
CutAt(s, reject) == SubSeq(s, 1, Strcspn(s, reject))

\* The characters the code tests for in front of a mate marker, and the markers.
Separators == {"/", "_", "."}
MateMarkers == {"1", "2", "f", "r"}

\* The suffix rule of the left pass. s is the C string after the cuts, before
\* is the byte in front of the buffer (read as line[strlen-2] when strlen = 1).
MateSuffixLeft(s, before) ==
    LET n == Len(s)
        lastchar == s[n]
        lastbutone == IF n >= 2 THEN s[n - 1] ELSE before
    IN  IF lastbutone \in Separators
        THEN IF lastchar \in MateMarkers THEN SubSeq(s, 1, n - 1) ELSE s
        ELSE [s EXCEPT ![n] = "/"]

\* The id of a header line as the left pass computes it.
NormalizeLeft(ln, splitspace, before) ==
    LET s1 == CutAt(ln, {NL})
        s2 == IF splitspace THEN CutAt(s1, {" ", "\t"}) ELSE s1
    IN  MateSuffixLeft(s2, before)

\* The right pass's rule had it appended "/" where the code overwrites the
\* last character.
MateSuffixRightAppending(s, before) ==
    LET n == Len(s)
        lastchar == s[n]
        lastbutone == IF n >= 2 THEN s[n - 1] ELSE before
    IN  IF lastbutone \in Separators
        THEN IF lastchar \in MateMarkers THEN SubSeq(s, 1, n - 1) ELSE s
        ELSE s \o <<"/">>

\* The suffix rule of the right pass.
MateSuffixRight(s, before) ==
    LET n == Len(s)
        lastchar == s[n]
        lastbutone == IF n >= 2 THEN s[n - 1] ELSE before
    IN  IF lastbutone \in Separators
        THEN IF lastchar \in MateMarkers THEN SubSeq(s, 1, n - 1) ELSE s
        ELSE [s EXCEPT ![n] = "/"]

\* The id of a header line as the right pass computes it.
NormalizeRight(ln, splitspace, before) ==
    LET s1 == CutAt(ln, {NL})
        s2 == IF splitspace THEN CutAt(s1, {" ", "\t"}) ELSE s1
    IN  MateSuffixRight(s2, before)

\* hash(): hashval = *s + 31 * hashval in unsigned 32-bit arithmetic, kept as
\* two 16-bit halves <<high, low>> so that every intermediate value fits a
\* signed 32-bit integer.
RECURSIVE HashFrom(_, _, _)
HashFrom(s, k, h) ==
    IF k > Len(s) THEN h
    ELSE LET low == 31 * h[2] + Code(s[k])
             high == 31 * h[1] + (low \div 65536)
         IN  HashFrom(s, k + 1, <<high % 65536, low % 65536>>)

hash(s) == HashFrom(s, 1, <<0, 0>>)

\* hash(line) % opt->tablesize, for a table size below 2^15.
Bucket(s, tablesize) ==
    LET h == hash(s)
    IN  ((h[1] % tablesize) * (65536 % tablesize) + h[2]) % tablesize

\* ------------------------------------------------------------------ state

VARIABLES
    opt,                       \* struct options: tablesize, deduplicate, splitspace, formatid
    left_file, right_file,     \* the two inputs, as sequences of lines
    pc,                        \* where pair_files is: start, left, right, orphan, done, failed, crashed
    ids_left, ids_right,       \* the hash tables: bucket -> chain (head first) of idloc
    left_junk, right_junk,     \* TRUE when malloc handed the table out with non-NULL garbage
    lpos, rpos,                \* read positions of lfp and rfp
    nextposition,
    line,                      \* the read buffer, as a C string
    left_paired, left_single, right_paired, right_single,   \* the outputs, as sequences of lines
    left_duplicates_counter, right_duplicates_counter,
    left_paired_counter, right_paired_counter,
    left_single_counter, right_single_counter,
    i,                         \* the bucket the last loop is at
    ret,                       \* the value returned, or the exit status
    diag,                      \* what the diagnostic on stderr names
    fault,                     \* what failed
    n_line, n_split, n_before, n_left, n_right, n_pc   \* one header through both normalizations

fileVars == <<opt, left_file, right_file>>
tableVars == <<ids_left, ids_right, left_junk, right_junk>>
readVars == <<lpos, rpos, nextposition, line>>
outVars == <<left_paired, left_single, right_paired, right_single>>
counterVars == <<left_duplicates_counter, right_duplicates_counter,
                 left_paired_counter, right_paired_counter,
                 left_single_counter, right_single_counter>>
endVars == <<ret, diag, fault>>
normVars == <<n_line, n_split, n_before, n_left, n_right, n_pc>>
vars == <<fileVars, tableVars, readVars, outVars, counterVars, endVars, normVars, pc, i>>

\* ----------------------------------------------------------------- inputs

\* The header texts the inputs are built from. Left: a mate marker after "/",
\* one after "_", and a marker followed by trailing text after a space (the
\* same id as the first when splitspace cuts it, an id of its own otherwise).
\* Right: the mates of the first two, the second with trailing text.
HeaderPool(side) ==
    IF side = "L"
    THEN { <<"a", "/", "1">>, <<"b", "_", "f">>, <<"a", "/", "f", " ", "x">> }
    ELSE { <<"a", "/", "2">>, <<"b", "_", "r", " ", "x">> }

DigitChar(k) == CASE k = 1 -> "1" [] k = 2 -> "2" [] k = 3 -> "3"
                  [] k = 4 -> "4" [] OTHER -> "5"

\* The four lines of record k of one side: header, sequence, separator, quality.
RecordLines(side, k, hdr) ==
    << hdr \o <<NL>>, <<"S", side, DigitChar(k), NL>>, <<"+", NL>>,
       <<"Q", side, DigitChar(k), NL>> >>

\* The file holding one complete record per header of hdrs.
FileOf(side, hdrs) ==
    [j \in 1..(4 * Len(hdrs)) |->
        RecordLines(side, ((j - 1) \div 4) + 1, hdrs[((j - 1) \div 4) + 1])[((j - 1) % 4) + 1]]

HeaderSeqs(side, n) == UNION { [1..k -> HeaderPool(side)] : k \in 0..n }

\* The files with at most n records, each of four lines.
WellFormedFiles(side, n) == { FileOf(side, hdrs) : hdrs \in HeaderSeqs(side, n) }

\* The files that end inside a record: a header and fewer than 3 more lines.
TruncatedFiles(side, n) ==
    { SubSeq(FileOf(side, hdrs), 1, 4 * (Len(hdrs) - 1) + t) :
        hdrs \in HeaderSeqs(side, n) \ {<<>>}, t \in 1..3 }

Options == [tablesize : 1..MaxTable, deduplicate : BOOLEAN,
            splitspace : BOOLEAN, formatid : BOOLEAN]

NoDiag == [op |-> "none", stream |-> "none"]
NoTable == <<>>

NormIdle ==
    /\ n_line = <<>> /\ n_split = FALSE /\ n_before = NUL
    /\ n_left = <<>> /\ n_right = <<>> /\ n_pc = "idle"

\* The state on entry to pair_files, lines 111-116.
Entry(lefts, rights) ==
    /\ opt \in Options
    /\ left_file \in lefts
    /\ right_file \in rights
    /\ pc = "start"
    /\ ids_left = NoTable /\ ids_right = NoTable
    /\ left_junk = FALSE /\ right_junk = FALSE
    /\ lpos = 0 /\ rpos = 0 /\ nextposition = 0 /\ line = <<>>
    /\ left_paired = <<>> /\ left_single = <<>>
    /\ right_paired = <<>> /\ right_single = <<>>
    /\ left_duplicates_counter = 0 /\ right_duplicates_counter = 0
    /\ left_paired_counter = 0 /\ right_paired_counter = 0
    /\ left_single_counter = 0 /\ right_single_counter = 0
    /\ i = 0 /\ ret = 0 /\ diag = NoDiag /\ fault = NoDiag
    /\ NormIdle

Init == Entry(WellFormedFiles("L", MaxLeft), WellFormedFiles("R", MaxRight))

InitTrunc ==
    Entry(WellFormedFiles("L", MaxLeft) \cup TruncatedFiles("L", MaxLeft),
          WellFormedFiles("R", MaxRight) \cup TruncatedFiles("R", MaxRight))

\* ------------------------------------------------------------------ reads

\* readFromFile: fgets/gzgets. At end of file it returns NULL and leaves the
\* buffer as it was.
readFromFile(file, pos, buf) ==
    IF pos < Len(file)
    THEN [line |-> file[pos + 1], pos |-> pos + 1]
    ELSE [line |-> buf, pos |-> pos]

\* n calls of readFromFile in a row; out lists the buffer after each call.
RECURSIVE ReadLines(_, _, _, _)
ReadLines(file, pos, buf, n) ==
    IF n = 0 THEN [out |-> <<>>, pos |-> pos, line |-> buf]
    ELSE LET r == readFromFile(file, pos, buf)
             rest == ReadLines(file, r.pos, r.line, n - 1)
         IN  [out |-> <<r.line>> \o rest.out, pos |-> rest.pos, line |-> rest.line]

\* The four reads without the seek in front of them: from wherever lfp is.
LeftRecordNoSeek(posn, buf, id) ==
    LET r == ReadLines(left_file, lpos, buf, 4)
    IN  [out |-> IF opt.formatid THEN << id \o <<"1", NL>> >> \o Tail(r.out) ELSE r.out,
         pos |-> r.pos, line |-> r.line]

\* seekInFile to posn, then the four reads of a left record and what is written
\* for each: the line read, or for the header catstr(id, "1\n") under formatid.
LeftRecordAt(posn, buf, id) ==
    LET r == ReadLines(left_file, posn, buf, 4)
    IN  [out |-> IF opt.formatid THEN << id \o <<"1", NL>> >> \o Tail(r.out) ELSE r.out,
         pos |-> r.pos, line |-> r.line]

\* The header written for a right record.
RightHeaderOut(headerline, entryid) ==
    IF opt.formatid THEN entryid \o <<"2", NL>> ELSE headerline

\* The walk had it compared the two pointers where the code compares the
\* strings: never equal.
HasIdByPointer(chain, key) == FALSE

\* The walk "while (existing != NULL)" that stops at an equal id.
HasId(chain, key) == \E k \in 1..Len(chain) : chain[k].id = key

NewId(key, posn) == [id |-> key, pos |-> posn, printed |-> FALSE]

\* The insertion had it lost the new entry (the head is never set).
InsertNothing(table, hashval, newid) == table

\* newid->next = table[hashval]; table[hashval] = newid.
InsertAtHead(table, hashval, newid) ==
    [table EXCEPT ![hashval] = <<newid>> \o @]

\* ---------------------------------------------------------------- actions

Buckets == 0..(opt.tablesize - 1)

Fail(status, what, named) ==
    /\ pc' = "failed"
    /\ ret' = status
    /\ fault' = what
    /\ diag' = named

\* Lines 118-166: both tables are malloc'ed (never cleared), the read buffer is
\* malloc'ed, the left input is opened.
Start ==
    /\ pc = "start"
    /\ \E lj \in BOOLEAN, rj \in BOOLEAN :
          /\ rj => opt.deduplicate
          /\ left_junk' = lj
          /\ right_junk' = rj
    /\ ids_left' = [b \in Buckets |-> <<>>]
    /\ ids_right' = IF opt.deduplicate THEN [b \in Buckets |-> <<>>] ELSE ids_right
    /\ nextposition' = 0
    /\ pc' = "left"
    /\ UNCHANGED <<fileVars, lpos, rpos, line, outVars, counterVars, endVars, normVars, i>>

\* Lines 120-124 and 129-133: malloc of a table returns NULL; exit(-1).
TableAllocFail ==
    /\ pc = "start"
    /\ \E side \in {"left", "right"} :
          /\ side = "right" => opt.deduplicate
          /\ Fail(255, [op |-> "alloc_table", stream |-> side],
                       [op |-> "alloc_table", stream |-> side])
    /\ UNCHANGED <<fileVars, tableVars, readVars, outVars, counterVars, normVars, i>>

\* Line 151: the buffer's malloc is not checked; the first read writes through NULL.
LineAllocFail ==
    /\ pc = "start"
    /\ pc' = "crashed"
    /\ UNCHANGED <<fileVars, tableVars, readVars, outVars, counterVars, endVars, normVars, i>>

\* Lines 153-163: the left input cannot be opened; exit(1).
LeftOpenFail ==
    /\ pc = "start"
    /\ Fail(1, [op |-> "open", stream |-> "left"], [op |-> "open", stream |-> "left"])
    /\ UNCHANGED <<fileVars, tableVars, readVars, outVars, counterVars, normVars, i>>

\* Lines 171-250, one turn of the loop over the left input.
LeftStep ==
    /\ pc = "left"
    /\ lpos < Len(left_file)
    /\ LET key == NormalizeLeft(left_file[lpos + 1], opt.splitspace, NUL)
           hashval == Bucket(key, opt.tablesize)
           dup == opt.deduplicate /\ HasId(ids_left[hashval], key)
           wild == opt.deduplicate /\ ~dup /\ left_junk
           r == ReadLines(left_file, lpos + 1, key, 3)
       IN  IF wild
           THEN /\ pc' = "crashed"
                /\ lpos' = lpos + 1
                /\ line' = key
                /\ UNCHANGED <<ids_left, nextposition, left_duplicates_counter>>
           ELSE /\ pc' = pc
                /\ left_duplicates_counter' =
                       IF dup THEN left_duplicates_counter + 1 ELSE left_duplicates_counter
                /\ ids_left' =
                       IF dup THEN ids_left
                       ELSE InsertAtHead(ids_left, hashval, NewId(key, nextposition))
                /\ lpos' = r.pos
                /\ line' = r.line
                /\ nextposition' = r.pos
    /\ UNCHANGED <<fileVars, ids_right, left_junk, right_junk, rpos, outVars,
                   right_duplicates_counter, left_paired_counter, right_paired_counter,
                   left_single_counter, right_single_counter, endVars, normVars, i>>

\* Lines 177-183: malloc of the entry returns NULL; return 0.
LeftEntryAllocFail ==
    /\ pc = "left"
    /\ lpos < Len(left_file)
    /\ lpos' = lpos + 1
    /\ line' = left_file[lpos + 1]
    /\ Fail(0, [op |-> "alloc_entry", stream |-> "left"],
               [op |-> "alloc_entry", stream |-> "left"])
    /\ UNCHANGED <<fileVars, tableVars, rpos, nextposition, outVars, counterVars, normVars, i>>

\* Lines 172-175 at end of file, then 272-352: the four outputs and the right
\* input are opened.
OpenOutputs ==
    /\ pc = "left"
    /\ lpos = Len(left_file)
    /\ pc' = "right"
    /\ nextposition' = 0
    /\ UNCHANGED <<fileVars, tableVars, lpos, rpos, line, outVars, counterVars,
                   endVars, normVars, i>>

\* Lines 294-335: an output cannot be created; exit(1).
OutputOpenFail ==
    /\ pc = "left"
    /\ lpos = Len(left_file)
    /\ \E f \in {"left_paired", "left_single", "right_paired", "right_single"} :
          Fail(1, [op |-> "open", stream |-> f], [op |-> "open", stream |-> f])
    /\ UNCHANGED <<fileVars, tableVars, readVars, outVars, counterVars, normVars, i>>

\* Lines 340-350: the right input cannot be opened; the message prints left_fn.
RightOpenFail ==
    /\ pc = "left"
    /\ lpos = Len(left_file)
    /\ Fail(1, [op |-> "open", stream |-> "right"], [op |-> "open", stream |-> "left"])
    /\ UNCHANGED <<fileVars, tableVars, readVars, outVars, counterVars, normVars, i>>

\* The walk had it stopped at the first equal id: the entry inserted last.
MatchPosnFirstHit(chain, key) ==
    LET hits == { k \in 1..Len(chain) : chain[k].id = key }
    IN  IF hits = {} THEN -1
        ELSE chain[CHOOSE k \in hits : \A j \in hits : k <= j].pos

\* The walk had it taken the position of every entry met, equal id or not.
MatchPosnAnyEntry(chain, key) ==
    IF Len(chain) = 0 THEN -1 ELSE chain[Len(chain)].pos

\* Lines 426-433: posn after the walk over the whole chain, -1 when no id is
\* equal; every equal entry overwrites it, so the last one met stays.
MatchPosn(chain, key) ==
    LET hits == { k \in 1..Len(chain) : chain[k].id = key }
    IN  IF hits = {} THEN -1
        ELSE chain[CHOOSE k \in hits : \A j \in hits : j <= k].pos

\* The walk had it marked every entry of the chain, equal id or not.
MarkPrintedWholeChain(chain, key) ==
    [k \in 1..Len(chain) |-> [chain[k] EXCEPT !.printed = TRUE]]

\* Lines 427-433: ptr->printed = true on every entry with an equal id.
MarkPrinted(chain, key) ==
    [k \in 1..Len(chain) |->
        IF chain[k].id = key THEN [chain[k] EXCEPT !.printed = TRUE] ELSE chain[k]]

\* Line 439: left_paired_counter++.
LeftPairedAfter == left_paired_counter + 1

\* The right count had it been left out.
RightPairedAfterNoCount == right_paired_counter

\* Line 454: right_paired_counter++.
RightPairedAfter == right_paired_counter + 1

\* Lines 354-477, one turn of the loop over the right input.
RightStep ==
    /\ pc = "right"
    /\ rpos < Len(right_file)
    /\ LET headerline == right_file[rpos + 1]
           key == NormalizeRight(headerline, opt.splitspace, NUL)
           hashval == Bucket(key, opt.tablesize)
           dup == opt.deduplicate /\ HasId(ids_right[hashval], key)
           wildRight == opt.deduplicate /\ ~dup /\ right_junk
           skipped == ReadLines(right_file, rpos + 1, key, 3)
           posn == MatchPosn(ids_left[hashval], key)
           marked == [ids_left EXCEPT ![hashval] = MarkPrinted(@, key)]
           added == IF opt.deduplicate
                    THEN InsertAtHead(ids_right, hashval, NewId(key, nextposition))
                    ELSE ids_right
           lrec == LeftRecordAt(posn, key, key)
           rest == ReadLines(right_file, rpos + 1, IF posn # -1 THEN lrec.line ELSE key, 3)
           rrec == <<RightHeaderOut(headerline, key)>> \o rest.out
       IN  CASE wildRight ->
                  /\ pc' = "crashed"
                  /\ rpos' = rpos + 1
                  /\ line' = key
                  /\ UNCHANGED <<ids_left, ids_right, lpos, outVars, counterVars>>
             [] ~wildRight /\ dup ->
                  /\ pc' = pc
                  /\ right_duplicates_counter' = right_duplicates_counter + 1
                  /\ rpos' = skipped.pos
                  /\ line' = skipped.line
                  /\ UNCHANGED <<ids_left, ids_right, lpos, outVars,
                                 left_duplicates_counter, left_paired_counter,
                                 right_paired_counter, left_single_counter,
                                 right_single_counter>>
             [] ~wildRight /\ ~dup /\ left_junk ->
                  /\ pc' = "crashed"
                  /\ ids_right' = added
                  /\ ids_left' = marked
                  /\ rpos' = rpos + 1
                  /\ line' = key
                  /\ UNCHANGED <<lpos, outVars, counterVars>>
             [] ~wildRight /\ ~dup /\ ~left_junk /\ posn # -1 ->
                  /\ pc' = pc
                  /\ ids_right' = added
                  /\ ids_left' = marked
                  /\ left_paired' = left_paired \o lrec.out
                  /\ left_paired_counter' = LeftPairedAfter
                  /\ lpos' = lrec.pos
                  /\ right_paired' = right_paired \o rrec
                  /\ right_paired_counter' = RightPairedAfter
                  /\ rpos' = rest.pos
                  /\ line' = rest.line
                  /\ UNCHANGED <<left_single, right_single, left_duplicates_counter,
                                 right_duplicates_counter, left_single_counter,
                                 right_single_counter>>
             [] OTHER ->
                  /\ pc' = pc
                  /\ ids_right' = added
                  /\ ids_left' = marked
                  /\ right_single' = right_single \o rrec
                  /\ right_single_counter' = right_single_counter + 1
                  /\ rpos' = rest.pos
                  /\ line' = rest.line
                  /\ UNCHANGED <<lpos, left_paired, left_single, right_paired,
                                 left_duplicates_counter, right_duplicates_counter,
                                 left_paired_counter, right_paired_counter,
                                 left_single_counter>>
    /\ UNCHANGED <<fileVars, left_junk, right_junk, nextposition, endVars, normVars, i>>

\* Lines 361-367: malloc of the entry returns NULL; return 0.
RightEntryAllocFail ==
    /\ pc = "right"
    /\ rpos < Len(right_file)
    /\ rpos' = rpos + 1
    /\ line' = right_file[rpos + 1]
    /\ Fail(0, [op |-> "alloc_entry", stream |-> "right"],
               [op |-> "alloc_entry", stream |-> "right"])
    /\ UNCHANGED <<fileVars, tableVars, lpos, nextposition, outVars, counterVars, normVars, i>>

\* Lines 355-359 at end of file: the loop over the right input is left.
RightDone ==
    /\ pc = "right"
    /\ rpos = Len(right_file)
    /\ pc' = "orphan"
    /\ i' = 0
    /\ UNCHANGED <<fileVars, tableVars, readVars, outVars, counterVars, endVars, normVars>>

\* The test of line 484 without its negation.
UnprintedInverted(entry) == entry.printed

\* Line 484: the entries the last loop prints.
Unprinted(entry) == ~entry.printed

\* Lines 483-497: the walk over one chain from entry k on. st carries what was
\* written so far, the count, the position of lfp and the buffer.
RECURSIVE EmitChain(_, _, _)
EmitChain(chain, k, st) ==
    IF k > Len(chain) THEN st
    ELSE IF Unprinted(chain[k])
         THEN LET rec == LeftRecordAt(chain[k].pos, st.line, chain[k].id)
              IN  EmitChain(chain, k + 1,
                            [out |-> st.out \o rec.out, n |-> st.n + 1,
                             pos |-> rec.pos, line |-> rec.line])
         ELSE EmitChain(chain, k + 1, st)

\* Lines 481-498, one bucket of the loop over the left table.
OrphanStep ==
    /\ pc = "orphan"
    /\ i < opt.tablesize
    /\ LET st == EmitChain(ids_left[i], 1,
                           [out |-> <<>>, n |-> 0, pos |-> lpos, line |-> line])
       IN  /\ left_single' = left_single \o st.out
           /\ left_single_counter' = left_single_counter + st.n
           /\ lpos' = st.pos
           /\ line' = st.line
    /\ IF left_junk
       THEN pc' = "crashed" /\ i' = i
       ELSE pc' = pc /\ i' = i + 1
    /\ UNCHANGED <<fileVars, tableVars, rpos, nextposition, left_paired, right_paired,
                   right_single, left_duplicates_counter, right_duplicates_counter,
                   left_paired_counter, right_paired_counter, right_single_counter,
                   endVars, normVars>>

\* Lines 500-562: the counts are printed, files closed, tables freed; return 0.
Finish ==
    /\ pc = "orphan"
    /\ i = opt.tablesize
    /\ pc' = "done"
    /\ ret' = 0
    /\ UNCHANGED <<fileVars, tableVars, readVars, outVars, counterVars, diag, fault,
                   normVars, i>>

Next ==
    \/ Start \/ TableAllocFail \/ LineAllocFail \/ LeftOpenFail
    \/ LeftStep \/ LeftEntryAllocFail
    \/ OpenOutputs \/ OutputOpenFail \/ RightOpenFail
    \/ RightStep \/ RightEntryAllocFail \/ RightDone
    \/ OrphanStep \/ Finish

Spec == Init /\ [][Next]_vars

SpecTrunc == InitTrunc /\ [][Next]_vars

\* ------------------------------------------- the id normalization by itself

\* The characters header texts are enumerated over.
NormAlphabet == {"a", "/", "_", ".", "1", "2", "f", "r", " ", "\t"}

\* The header texts of the documented examples.
NormSamples == { <<"r", "e", "a", "d", "1", "/", "1">>,
                 <<"r", "e", "a", "d", "1", "/", "2">>,
                 <<"r", "e", "a", "d", "1">> }

NormTexts == NormSamples \cup UNION { [1..k -> NormAlphabet] : k \in 1..MaxLen }

\* What strlen(line) is when the suffix rule looks at the buffer.
CutLen(ln, splitspace) ==
    Len(IF splitspace THEN CutAt(CutAt(ln, {NL}), {" ", "\t"}) ELSE CutAt(ln, {NL}))

\* pair_files is not running; only the normalization is.
MainIdle ==
    /\ opt = [tablesize |-> 1, deduplicate |-> FALSE, splitspace |-> FALSE, formatid |-> FALSE]
    /\ left_file = <<>> /\ right_file = <<>>
    /\ pc = "idle"
    /\ ids_left = NoTable /\ ids_right = NoTable
    /\ left_junk = FALSE /\ right_junk = FALSE
    /\ lpos = 0 /\ rpos = 0 /\ nextposition = 0 /\ line = <<>>
    /\ left_paired = <<>> /\ left_single = <<>>
    /\ right_paired = <<>> /\ right_single = <<>>
    /\ left_duplicates_counter = 0 /\ right_duplicates_counter = 0
    /\ left_paired_counter = 0 /\ right_paired_counter = 0
    /\ left_single_counter = 0 /\ right_single_counter = 0
    /\ i = 0 /\ ret = 0 /\ diag = NoDiag /\ fault = NoDiag

\* A header line as fgets delivers it (with its terminator, or without at the
\* end of a file), a setting of splitspace, and the byte in front of the
\* buffer, which the code reads only when one character is left. A header
\* that leaves no character makes the code write in front of the buffer and
\* is not enumerated.
NormInit ==
    /\ MainIdle
    /\ n_split \in BOOLEAN
    /\ n_line \in { t \o e : t \in NormTexts, e \in {<<>>, <<NL>>} }
    /\ CutLen(n_line, n_split) >= 1
    /\ n_before \in IF CutLen(n_line, n_split) = 1 THEN NormAlphabet \cup {NUL} ELSE {NUL}
    /\ n_left = <<>> /\ n_right = <<>>
    /\ n_pc = "header"

mainVars == <<fileVars, tableVars, readVars, outVars, counterVars, endVars, pc, i>>

\* Lines 185-209 on the header.
NormLeftPass ==
    /\ n_pc = "header"
    /\ n_left' = NormalizeLeft(n_line, n_split, n_before)
    /\ n_pc' = "left"
    /\ UNCHANGED <<mainVars, n_line, n_split, n_before, n_right>>

\* Lines 372-386 on the same header.
NormRightPass ==
    /\ n_pc = "left"
    /\ n_right' = NormalizeRight(n_line, n_split, n_before)
    /\ n_pc' = "both"
    /\ UNCHANGED <<mainVars, n_line, n_split, n_before, n_left>>

NormNext == NormLeftPass \/ NormRightPass

SpecNorm == NormInit /\ [][NormNext]_vars

\* ------------------------------------------------ records, as claims see them

\* The number of records of a file whose line count is a multiple of 4.
NumRecords(file) == Len(file) \div 4

LeftKey(k) == NormalizeLeft(left_file[4 * (k - 1) + 1], opt.splitspace, NUL)
RightKey(k) == NormalizeRight(right_file[4 * (k - 1) + 1], opt.splitspace, NUL)

LeftIndices == 1..NumRecords(left_file)
RightIndices == 1..NumRecords(right_file)

\* Record k as it reads in an output: its four lines, the header replaced by
\* the id and the mate number when formatid is set.
LeftAsWritten(k) ==
    LET rec == SubSeq(left_file, 4 * (k - 1) + 1, 4 * k)
    IN  IF opt.formatid THEN << LeftKey(k) \o <<"1", NL>> >> \o Tail(rec) ELSE rec

RightAsWritten(k) ==
    LET rec == SubSeq(right_file, 4 * (k - 1) + 1, 4 * k)
    IN  IF opt.formatid THEN << RightKey(k) \o <<"2", NL>> >> \o Tail(rec) ELSE rec

\* How many of the four-line groups of an output are the record rec.
Occurrences(out, rec) ==
    Cardinality({ j \in 1..(Len(out) \div 4) : SubSeq(out, 4 * (j - 1) + 1, 4 * j) = rec })

FirstLeftWith(key) ==
    CHOOSE k \in LeftIndices :
        LeftKey(k) = key /\ \A j \in LeftIndices : LeftKey(j) = key => k <= j

IsFirstLeft(k) == \A j \in 1..(k - 1) : LeftKey(j) # LeftKey(k)
IsFirstRight(k) == \A j \in 1..(k - 1) : RightKey(j) # RightKey(k)
InRight(key) == \E j \in RightIndices : RightKey(j) = key
InLeft(key) == \E k \in LeftIndices : LeftKey(k) = key
OnceInRight(key) == Cardinality({ j \in RightIndices : RightKey(j) = key }) = 1

\* ----------------------------------------------------------------- claims

\* C1 as stated: when pair_files finishes, every left record whose id occurs
\* in the right stream is exactly once in left-paired, and every right record
\* whose id occurs in the left stream is exactly once in right-paired.
C1_EveryMatchedRecordPairedOnce ==
    pc = "done" =>
        /\ \A k \in LeftIndices :
              InRight(LeftKey(k)) => Occurrences(left_paired, LeftAsWritten(k)) = 1
        /\ \A j \in RightIndices :
              InLeft(RightKey(j)) => Occurrences(right_paired, RightAsWritten(j)) = 1

\* C1 amended: when pair_files finishes, a left record that is the first of
\* the left stream with its id, whose id occurs in the right stream (exactly
\* once when deduplicate is off), is exactly once in left-paired; a right
\* record whose id occurs in the left stream, and which under deduplicate is
\* the first of the right stream with its id, is exactly once in right-paired.
C1_FirstMatchedRecordPairedOnce ==
    pc = "done" =>
        /\ \A k \in LeftIndices :
              ( /\ IsFirstLeft(k)
                /\ InRight(LeftKey(k))
                /\ ~opt.deduplicate => OnceInRight(LeftKey(k)) )
              => Occurrences(left_paired, LeftAsWritten(k)) = 1
        /\ \A j \in RightIndices :
              ( /\ InLeft(RightKey(j))
                /\ opt.deduplicate => IsFirstRight(j) )
              => Occurrences(right_paired, RightAsWritten(j)) = 1

\* C1's case: a finished run that paired a record out of a left stream in
\* which the paired id occurs twice.
C1_Witness ==
    /\ pc = "done"
    /\ left_paired_counter = 1
    /\ \E k \in LeftIndices : ~IsFirstLeft(k) /\ InRight(LeftKey(k))

\* C2 as stated: when pair_files finishes, every left record whose id occurs
\* in no right record is exactly once in left-single, and every right record
\* whose id occurs in no left record is exactly once in right-single, also
\* when the id repeats inside its own stream.
C2_EveryUnmatchedRecordSingleOnce ==
    pc = "done" =>
        /\ \A k \in LeftIndices :
              ~InRight(LeftKey(k)) => Occurrences(left_single, LeftAsWritten(k)) = 1
        /\ \A j \in RightIndices :
              ~InLeft(RightKey(j)) => Occurrences(right_single, RightAsWritten(j)) = 1

\* C2 amended: the same, except that under deduplicate only the first record
\* of a stream with a given id is written; the later ones are dropped.
C2_KeptUnmatchedRecordSingleOnce ==
    pc = "done" =>
        /\ \A k \in LeftIndices :
              (~InRight(LeftKey(k)) /\ (opt.deduplicate => IsFirstLeft(k)))
              => Occurrences(left_single, LeftAsWritten(k)) = 1
        /\ \A j \in RightIndices :
              (~InLeft(RightKey(j)) /\ (opt.deduplicate => IsFirstRight(j)))
              => Occurrences(right_single, RightAsWritten(j)) = 1

\* C2's case: a finished run without deduplicate whose two left records share
\* an id no right record has, and whose right stream has an unmatched record.
C2_Witness ==
    /\ pc = "done"
    /\ ~opt.deduplicate
    /\ left_single_counter = 2
    /\ right_single_counter >= 1
    /\ \E k \in LeftIndices : ~IsFirstLeft(k)

\* C3: the two paired counters are equal in every state, and each counts the
\* four-line records written to its output (a paired emission adds one record
\* and one count on both sides).
C3_PairedCountersEqual ==
    /\ left_paired_counter = right_paired_counter
    /\ Len(left_paired) = 4 * left_paired_counter
    /\ Len(right_paired) = 4 * right_paired_counter

\* C3's case: two pairs have been emitted.
C3_Witness == pc = "right" /\ left_paired_counter = 2 /\ right_paired_counter = 2

\* The header after the terminator is stripped and, under splitspace, the
\* text from the first space or tab on is cut.
Stripped(ln, splitspace) ==
    IF splitspace THEN CutAt(CutAt(ln, {NL}), {" ", "\t"}) ELSE CutAt(ln, {NL})

\* The reference C4 states: the marker after a separator is dropped, and in
\* every other case the last character becomes "/".
ReferenceId(ln, splitspace) ==
    LET s == Stripped(ln, splitspace)
        n == Len(s)
    IN  IF n >= 2 /\ s[n - 1] \in Separators /\ s[n] \in MateMarkers
        THEN SubSeq(s, 1, n - 1)
        ELSE SubSeq(s, 1, n - 1) \o <<"/">>

\* The reference with the one case changed: a separator followed by a
\* character that is no mate marker leaves the text as it is.
ReferenceIdKeepingOthers(ln, splitspace) ==
    LET s == Stripped(ln, splitspace)
        n == Len(s)
    IN  CASE s[n - 1] \in Separators /\ s[n] \in MateMarkers -> SubSeq(s, 1, n - 1)
          [] s[n - 1] \in Separators /\ s[n] \notin MateMarkers -> s
          [] OTHER -> SubSeq(s, 1, n - 1) \o <<"/">>

\* C4 as stated, for the headers that keep at least two characters: the id
\* both passes compute for a header is the reference.
C4_NormalizationIsReference ==
    (n_pc = "both" /\ Len(Stripped(n_line, n_split)) >= 2) =>
        /\ n_left = ReferenceId(n_line, n_split)
        /\ n_right = ReferenceId(n_line, n_split)

\* C4 amended: for a header that keeps at least two characters, both passes
\* compute the reference, except that a separator followed by a character
\* that is no mate marker leaves the text unchanged (it is not replaced by
\* "/"); "read1/1" and "read1/2" give "read1/", "read1" gives "read/".
C4_NormalizationKeepsOtherSuffix ==
    (n_pc = "both" /\ Len(Stripped(n_line, n_split)) >= 2) =>
        /\ n_left = ReferenceIdKeepingOthers(n_line, n_split)
        /\ n_right = n_left
        /\ Stripped(n_line, n_split) \in { <<"r", "e", "a", "d", "1", "/", "1">>,
                                           <<"r", "e", "a", "d", "1", "/", "2">> }
              => n_left = <<"r", "e", "a", "d", "1", "/">>
        /\ Stripped(n_line, n_split) = <<"r", "e", "a", "d", "1">>
              => n_left = <<"r", "e", "a", "d", "/">>

\* C4's case: both passes have run on a header ending in a separator and a
\* character that is no mate marker, and the header came through unchanged.
C4_Witness ==
    /\ n_pc = "both"
    /\ n_line = <<"a", "/", "a", NL>>
    /\ n_left = <<"a", "/", "a">>
    /\ n_right = <<"a", "/", "a">>

\* All entries of a table, bucket after bucket.
EntriesOf(table) ==
    UNION { { <<b, k>> : k \in 1..Len(table[b]) } : b \in DOMAIN table }

LeftKeys == { LeftKey(k) : k \in LeftIndices }

\* C5: under deduplicate, once the left pass is over, no chain holds an id
\* twice, every id of the left stream has exactly one entry, that entry
\* carries the offset of the first record with the id, and
\* left_duplicates_counter is the number of records minus the number of ids.
C5_DedupIndexHoldsFirstOfEachId ==
    (opt.deduplicate /\ pc \in {"right", "orphan", "done"}) =>
        /\ \A b \in DOMAIN ids_left : \A k1, k2 \in 1..Len(ids_left[b]) :
              ids_left[b][k1].id = ids_left[b][k2].id => k1 = k2
        /\ \A key \in LeftKeys :
              /\ Cardinality({ e \in EntriesOf(ids_left) : ids_left[e[1]][e[2]].id = key }) = 1
              /\ \E e \in EntriesOf(ids_left) :
                    /\ ids_left[e[1]][e[2]].id = key
                    /\ ids_left[e[1]][e[2]].pos = 4 * (FirstLeftWith(key) - 1)
        /\ \A e \in EntriesOf(ids_left) : ids_left[e[1]][e[2]].id \in LeftKeys
        /\ left_duplicates_counter = NumRecords(left_file) - Cardinality(LeftKeys)

\* C5's case: the left pass is over and met the same id twice.
C5_Witness ==
    /\ opt.deduplicate
    /\ pc = "right"
    /\ NumRecords(left_file) = 2
    /\ left_duplicates_counter = 1

\* A stream that ends inside a record.
EndsMidRecord(file) == Len(file) % 4 # 0

\* The complete records of the inputs, as an output may hold them.
CompleteLeftRecords == { LeftAsWritten(k) : k \in LeftIndices }
CompleteRightRecords == { RightAsWritten(k) : k \in RightIndices }

\* Every four-line group of an output is one of the records recs.
HoldsOnly(out, recs) ==
    \A j \in 1..((Len(out) + 3) \div 4) :
        SubSeq(out, 4 * (j - 1) + 1, IF 4 * j <= Len(out) THEN 4 * j ELSE Len(out)) \in recs

\* C6: a stream that ends inside a record stops the run with a report naming
\* that stream; the partial record is never indexed, the passes after it are
\* never entered, and no output ever holds anything but complete records.
C6_TruncatedStreamAborts ==
    /\ EndsMidRecord(left_file) =>
          /\ pc \notin {"right", "orphan", "done"}
          /\ \A e \in EntriesOf(ids_left) :
                ids_left[e[1]][e[2]].pos + 4 <= Len(left_file)
    /\ EndsMidRecord(right_file) => pc \notin {"orphan", "done"}
    /\ HoldsOnly(left_paired, CompleteLeftRecords)
    /\ HoldsOnly(left_single, CompleteLeftRecords)
    /\ HoldsOnly(right_paired, CompleteRightRecords)
    /\ HoldsOnly(right_single, CompleteRightRecords)

\* C7: every failure ends with a status other than 0 and a diagnostic that
\* names the stream and operation that failed.
C7_FailureIsReported == pc = "failed" => (ret # 0 /\ diag = fault)

\* A turn of the loop over the right input that ran to its end.
RightTurn == pc = "right" /\ pc' = "right" /\ rpos' # rpos

\* The record and id that turn is about.
CurrentRight == (rpos \div 4) + 1
CurrentRightKey == RightKey(CurrentRight)

\* The entries of the left table with a given id.
EntriesWith(table, key) == { e \in EntriesOf(table) : table[e[1]][e[2]].id = key }

\* What a step appended to an output.
Appended(before, after) == SubSeq(after, Len(before) + 1, Len(after))

\* C8: without deduplicate, a right record whose id several left entries carry
\* marks every one of them printed, and the left record written to left-paired
\* is the one at the offset of the entry inserted first (the last one of the
\* chain with that id), not the one inserted last.
C8_EarliestInsertedIsPaired ==
    [][ ( /\ RightTurn
          /\ ~opt.deduplicate
          /\ Cardinality(EntriesWith(ids_left, CurrentRightKey)) >= 2 )
        => /\ \A e \in EntriesWith(ids_left, CurrentRightKey) :
                  ids_left'[e[1]][e[2]].printed
           /\ \E e \in EntriesWith(ids_left, CurrentRightKey) :
                  /\ \A o \in EntriesWith(ids_left, CurrentRightKey) :
                        /\ ids_left[e[1]][e[2]].pos <= ids_left[o[1]][o[2]].pos
                        /\ o[2] <= e[2]
                  /\ Appended(left_paired, left_paired') =
                        LeftAsWritten((ids_left[e[1]][e[2]].pos \div 4) + 1)
           /\ Appended(left_paired, left_paired') =
                  LeftAsWritten(FirstLeftWith(CurrentRightKey))
      ]_vars

\* C8's case: without deduplicate a pair was written while two entries of one
\* chain carry the paired id, and both are marked.
C8_Witness ==
    /\ ~opt.deduplicate
    /\ pc = "right"
    /\ left_paired_counter = 1
    /\ \E b \in DOMAIN ids_left :
          /\ Len(ids_left[b]) = 2
          /\ ids_left[b][1].id = ids_left[b][2].id
          /\ ids_left[b][1].printed /\ ids_left[b][2].printed

\* The record at an entry's offset, as the last loop writes it.
RecordOfEntry(entry) ==
    IF opt.formatid
    THEN << entry.id \o <<"1", NL>> >> \o SubSeq(left_file, entry.pos + 2, entry.pos + 4)
    ELSE SubSeq(left_file, entry.pos + 1, entry.pos + 4)

\* The records of the entries of chain, from entry k on, that are not printed.
RECURSIVE OrphansOfChain(_, _)
OrphansOfChain(chain, k) ==
    IF k > Len(chain) THEN <<>>
    ELSE (IF chain[k].printed THEN <<>> ELSE RecordOfEntry(chain[k]))
         \o OrphansOfChain(chain, k + 1)

\* The same for the buckets b, b+1, ... below upto, in ascending order.
RECURSIVE OrphansOfBuckets(_, _)
OrphansOfBuckets(b, upto) ==
    IF b >= upto THEN <<>>
    ELSE OrphansOfChain(ids_left[b], 1) \o OrphansOfBuckets(b + 1, upto)

\* The number of entries not printed in the buckets below upto.
OrphanCount(upto) ==
    Cardinality({ e \in EntriesOf(ids_left) : e[1] < upto /\ ~ids_left[e[1]][e[2]].printed })

\* C9: nothing is written to left-single before the whole right stream has
\* been read; from then on left-single holds the records of the entries not
\* printed, of the buckets done so far, in ascending bucket order and chain
\* order within a bucket, each once, and left_single_counter counts them.
C9_OrphansInBucketAndChainOrder ==
    /\ pc \in {"start", "left", "right"} => (left_single = <<>> /\ left_single_counter = 0)
    /\ pc \in {"orphan", "done"} =>
          /\ rpos = Len(right_file)
          /\ left_single = OrphansOfBuckets(0, i)
          /\ left_single_counter = OrphanCount(i)
    /\ pc = "done" => i = opt.tablesize

\* C9's case: a finished run that wrote an orphan out of a chain and left the
\* printed entry of the same chain out.
C9_Witness ==
    /\ pc = "done"
    /\ left_single_counter >= 1
    /\ left_paired_counter >= 1
    /\ \E b \in DOMAIN ids_left :
          /\ Len(ids_left[b]) >= 2
          /\ \E k \in 1..Len(ids_left[b]) : ids_left[b][k].printed
          /\ \E k \in 1..Len(ids_left[b]) : ~ids_left[b][k].printed

\* C10: under deduplicate, a right record whose id an earlier right record
\* had takes its four lines off the stream and raises
\* right_duplicates_counter by one; no output, no other counter, no entry of
\* either table changes.
C10_RightDuplicateOnlyCounts ==
    [][ ( /\ RightTurn
          /\ opt.deduplicate
          /\ ~IsFirstRight(CurrentRight) )
        => /\ rpos' = rpos + 4
           /\ right_duplicates_counter' = right_duplicates_counter + 1
           /\ UNCHANGED <<outVars, ids_left, ids_right, lpos>>
           /\ UNCHANGED <<left_duplicates_counter, left_paired_counter,
                          right_paired_counter, left_single_counter,
                          right_single_counter>>
      ]_vars

\* C10's case: the second of two right records with one id has been skipped
\* while the first had found its mate.
C10_Witness ==
    /\ opt.deduplicate
    /\ pc = "right"
    /\ rpos = 8
    /\ right_duplicates_counter = 1
    /\ left_paired_counter = 1

\* The right records among the first n that find a mate, in stream order:
\* those whose id the left stream has and which deduplicate does not skip.
RECURSIVE MatchingRights(_)
MatchingRights(n) ==
    IF n = 0 THEN <<>>
    ELSE MatchingRights(n - 1) \o
         (IF InLeft(RightKey(n)) /\ (opt.deduplicate => IsFirstRight(n))
          THEN <<n>> ELSE <<>>)

\* The k-th four-line record of an output.
RecordAt(out, k) == SubSeq(out, 4 * (k - 1) + 1, 4 * k)

\* C11: after any number of right records, left-paired and right-paired hold
\* the same number of records, the k-th record of right-paired is the k-th
\* right record, in stream order, that found a mate, and the k-th record of
\* left-paired is a left record with the same canonical id.
C11_PairedOutputsAligned ==
    pc \in {"right", "orphan", "done"} =>
        LET done == MatchingRights(rpos \div 4)
        IN  /\ Len(left_paired) = 4 * Len(done)
            /\ Len(right_paired) = 4 * Len(done)
            /\ \A k \in 1..Len(done) :
                  /\ RecordAt(right_paired, k) = RightAsWritten(done[k])
                  /\ \E l \in LeftIndices :
                        /\ LeftKey(l) = RightKey(done[k])
                        /\ RecordAt(left_paired, k) = LeftAsWritten(l)

\* C11's case: two pairs were written, in the order of the right stream, which
\* is the reverse of the order of their left records.
C11_Witness ==
    /\ pc = "done"
    /\ left_paired_counter = 2
    /\ NumRecords(left_file) = 2
    /\ NumRecords(right_file) = 2
    /\ RecordAt(left_paired, 1) = LeftAsWritten(2)
    /\ RecordAt(left_paired, 2) = LeftAsWritten(1)
    /\ LeftKey(1) # LeftKey(2)
    /\ RecordAt(right_paired, 1) = RightAsWritten(1)
    /\ RecordAt(right_paired, 2) = RightAsWritten(2)

====
